---- MODULE Spec2Model ----
(***************************************************************************)
(* A model of the GoCache / gerdu cache engines:                           *)
(*   - lrucache.LRUCache   (src/unnamed/part_000)                          *)
(*   - lfucache.LFUCache   (src/lfucache/lfu_cache.go), with its raft FSM  *)
(*     hooks Snapshot / Restore / Persist.                                 *)
(* The dlinklist package is not among the source files; its four           *)
(* operations are modelled from the specification's "Ordered Index".       *)
(***************************************************************************)
EXTENDS Integers, Sequences, FiniteSets, TLC

\* ------------------------------------------------------------------ bounds

\* Largest capacity (bytes) an engine is constructed with.
MaxCapacity == 1

\* Longest value (bytes) a caller passes to Put.
MaxLen == 2

\* bytesize.ByteSize is a uint64; the model keeps a narrower unsigned
\* counter.  Sizes in the model stay far below 2^ByteSizeBits unless a
\* subtraction wraps, and a wrapped counter is only ever compared with the
\* capacity, so the narrower width changes no outcome.
ByteSizeBits == 8

ByteSizeMod == 2 ^ ByteSizeBits

Keys == {"a", "b", "c"}

\* Values are byte strings.  120 is the byte 'x'; 255 is a byte that is not
\* valid UTF-8 (values arrive as protobuf `bytes`, gerdu.proto line 19).
\* The values callers pass: the empty one, a one-byte one (not valid UTF-8)
\* and the longest one, which exceeds every capacity.
Values == {<< >>, <<255>>, [i \in 1..MaxLen |-> 120]}

Capacities == 0..MaxCapacity

\* Go maps: a function whose domain is the set of keys present.
EmptyMap == [k \in {} |-> 0]

MapHas(m, k) == k \in DOMAIN m

MapSet(m, k, v) == [x \in DOMAIN m \cup {k} |-> IF x = k THEN v ELSE m[x]]

MapDelete(m, k) == [x \in DOMAIN m \ {k} |-> m[x]]

\* uint64 arithmetic of bytesize.ByteSize
AddU(a, b) == (a + b) % ByteSizeMod

SubU(a, b) == (a - b + ByteSizeMod) % ByteSizeMod

\* ------------------------------------------------- dlinklist (ordered index)
\* A list is a sequence of node handles, head first.

NewLinkedList == << >>

AddNode(l, n) == <<n>> \o l

RemoveNode(l, n) == SelectSeq(l, LAMBDA x : x # n)

Size(l) == Len(l)

\* PopTail of a non-empty list: the tail handle and the remaining list.
PopTail(l) == [node |-> l[Len(l)], list |-> SubSeq(l, 1, Len(l) - 1)]

\* ------------------------------------------------------------- LRU engine
\* cache maps a key to its node; a node is created only for a key that has
\* none and leaves cache and linklist together, so the key is the node's
\* handle in linklist.

LRUNewCache(capacity) ==
    [cache    |-> EmptyMap,
     linklist |-> NewLinkedList,
     capacity |-> capacity,
     size     |-> 0]

\* The observation of one call: the operation and its key, its boolean
\* result, the nodes it evicted (in order; wraps: the node's value was longer
\* than size, so the unsigned subtraction wrapped), the number of times it
\* incremented the "delete" metric, and how it ended ("ok", "panic", or
\* "spinning" for a loop that never ends).
Obs(op, key) ==
    [op |-> op, key |-> key, ok |-> FALSE, evicted |-> << >>, deletes |-> 0,
     status |-> "ok"]

\* Faulty variant: a Get that returns the value without moving the node to the head.
LRUGetNoMove(c, key) ==
    IF MapHas(c.cache, key)
    THEN [c |-> c, obs |-> [Obs("Get", key) EXCEPT !.ok = TRUE]]
    ELSE [c |-> c, obs |-> Obs("Get", key)]

LRUGet(c, key) ==
    IF MapHas(c.cache, key)
    THEN [c   |-> [c EXCEPT !.linklist = AddNode(RemoveNode(c.linklist, key), key)],
          obs |-> [Obs("Get", key) EXCEPT !.ok = TRUE]]
    ELSE [c   |-> c,
          obs |-> Obs("Get", key)]

\* Faulty variant: an eviction that pops one tail (an `if` for the `for`).
LRUEvictOnce(c, evicted, deletes) ==
    IF ~(c.size > c.capacity)
    THEN [c |-> c, evicted |-> evicted, deletes |-> deletes, status |-> "ok"]
    ELSE IF Size(c.linklist) = 0
    THEN [c |-> c, evicted |-> evicted, deletes |-> deletes + 1, status |-> "panic"]
    ELSE LET Evict(p, tail) ==
                 [c |-> [c EXCEPT !.linklist = p.list,
                                  !.size = SubU(c.size, Len(tail.Value)),
                                  !.cache = MapDelete(c.cache, tail.Key)],
                  evicted |-> Append(evicted, [Key |-> tail.Key,
                                  wraps |-> Len(tail.Value) > c.size]),
                  deletes |-> deletes + 1, status |-> "ok"]
         IN  Evict(PopTail(c.linklist), c.cache[PopTail(c.linklist).node])

\* The eviction loop of Put (lines 62-67).  PopTail of an empty list is the
\* ordered index's EmptyStructure error: the call panics.
RECURSIVE LRUEvictLoop(_, _, _)
LRUEvictLoop(c, evicted, deletes) ==
    IF ~(c.size > c.capacity)
    THEN [c |-> c, evicted |-> evicted, deletes |-> deletes, status |-> "ok"]
    ELSE IF Size(c.linklist) = 0
    THEN [c |-> c, evicted |-> evicted, deletes |-> deletes + 1, status |-> "panic"]
    ELSE LET p    == PopTail(c.linklist)
             tail == c.cache[p.node]
         IN  LRUEvictLoop(
                [c EXCEPT !.linklist = p.list,
                          !.size = SubU(c.size, Len(tail.Value)),
                          !.cache = MapDelete(c.cache, tail.Key)],
                Append(evicted, [Key |-> tail.Key,
                                  wraps |-> Len(tail.Value) > c.size]), deletes + 1)

\* Faulty variant: a Put that, on an update, accounts for the change of value length.
LRUPutAdjusting(c, key, value) ==
    IF MapHas(c.cache, key)
    THEN [c   |-> [c EXCEPT !.linklist = AddNode(RemoveNode(c.linklist, key), key),
                            !.cache[key].Value = value,
                            !.size = AddU(SubU(c.size, Len(c.cache[key].Value)),
                                          Len(value))],
          obs |-> Obs("Put", key)]
    ELSE LET c1 == [c EXCEPT !.linklist = AddNode(c.linklist, key),
                             !.cache = MapSet(c.cache, key, [Key |-> key, Value |-> value]),
                             !.size = AddU(c.size, Len(value))]
             r  == LRUEvictLoop(c1, << >>, 0)
         IN  [c   |-> r.c,
              obs |-> [Obs("Put", key) EXCEPT
                         !.ok = (r.status = "ok"),
                         !.evicted = r.evicted, !.deletes = r.deletes,
                         !.status = r.status]]

LRUPut(c, key, value) ==
    IF MapHas(c.cache, key)
    THEN [c   |-> [c EXCEPT !.linklist = AddNode(RemoveNode(c.linklist, key), key),
                            !.cache[key].Value = value],
          obs |-> Obs("Put", key)]
    ELSE LET c1 == [c EXCEPT !.linklist = AddNode(c.linklist, key),
                             !.cache = MapSet(c.cache, key, [Key |-> key, Value |-> value]),
                             !.size = AddU(c.size, Len(value))]
             r  == LRUEvictLoop(c1, << >>, 0)
         IN  [c   |-> r.c,
              obs |-> [Obs("Put", key) EXCEPT
                         !.ok = (r.status = "ok"),
                         !.evicted = r.evicted, !.deletes = r.deletes,
                         !.status = r.status]]

LRUHasKey(c, key) == MapHas(c.cache, key)

\* ------------------------------------------------------------- LFU engine
\* Nodes are heap objects: heap maps a node's address to its fields.  node is
\* the key map (key -> address), freq the bucket map (frequency -> list of
\* addresses).  A node referenced by neither is garbage and is collected;
\* the collector compacts, so that an address carries no history.

\* Most nodes alive at once (an allocation beyond it is not explored).
MaxNodes == 3

\* Largest frequency a node is driven to (a further touch is not explored).
MaxFreq == 3

NodeIds == 1..MaxNodes

LFUNewCache(capacity) ==
    [size     |-> 0,
     capacity |-> capacity,
     node     |-> EmptyMap,
     freq     |-> EmptyMap,
     minFreq  |-> 0,
     heap     |-> EmptyMap]

SeqRange(l) == {l[i] : i \in 1..Len(l)}

\* Addresses still referenced from the key map or from a bucket.
Referenced(c) ==
    {c.node[k] : k \in DOMAIN c.node}
        \cup UNION {SeqRange(c.freq[f]) : f \in DOMAIN c.freq}

\* The referenced addresses in a fixed order: bucket by bucket in ascending
\* frequency, head first, then those only the key map holds.
RECURSIVE BucketOrder(_, _)
BucketOrder(c, fs) ==
    IF fs = {} THEN << >>
    ELSE LET f == CHOOSE x \in fs : \A y \in fs : x <= y
         IN  c.freq[f] \o BucketOrder(c, fs \ {f})

RECURSIVE SetOrder(_)
SetOrder(ns) ==
    IF ns = {} THEN << >>
    ELSE LET n == CHOOSE x \in ns : \A y \in ns : x <= y
         IN  <<n>> \o SetOrder(ns \ {n})

AddressOrder(c) ==
    LET Rest(b) == b \o SetOrder(Referenced(c) \ SeqRange(b))
    IN  Rest(BucketOrder(c, DOMAIN c.freq))

\* Garbage collection with compaction: the referenced nodes move to the
\* addresses 1, 2, ... and every reference follows.
Collect(c) ==
    LET Move(o, to) ==
            [c EXCEPT
               !.heap = [i \in 1..Len(o) |-> c.heap[o[i]]],
               !.node = [k \in DOMAIN c.node |-> to[c.node[k]]],
               !.freq = [f \in DOMAIN c.freq |->
                            [i \in 1..Len(c.freq[f]) |-> to[c.freq[f][i]]]]]
        Index(o) ==
            Move(o, [n \in SeqRange(o) |-> CHOOSE i \in 1..Len(o) : o[i] = n])
    IN  Index(AddressOrder(c))

NewNodeId(c) == CHOOSE n \in NodeIds \ DOMAIN c.heap :
                    \A m \in NodeIds \ DOMAIN c.heap : n <= m

\* Faulty variant: an update that removes the emptied minimum bucket and
\* leaves minFreq behind.
LFUupdateNoAdvance(c, n) ==
    LET freq == c.heap[n].Freq
        \* lines 68-70: c.freq[node.Freq].AddNode(node)
        Link(c4) ==
            [c |-> [c4 EXCEPT !.freq[freq + 1] = AddNode(c4.freq[freq + 1], n)],
             status |-> "ok"]
        \* lines 65-67: the bucket of the new frequency, made if absent
        Bucket(c3) ==
            Link(IF ~MapHas(c3.freq, freq + 1)
                 THEN [c3 EXCEPT !.freq = MapSet(c3.freq, freq + 1, NewLinkedList)]
                 ELSE c3)
        \* line 64: node.Freq++
        Count(c2) == Bucket([c2 EXCEPT !.heap[n].Freq = freq + 1])
        \* lines 59-63: the emptied minimum bucket goes
        Drop(c1) ==
            Count(IF c1.minFreq = freq /\ Size(c1.freq[freq]) = 0
                  THEN [c1 EXCEPT !.freq = MapDelete(c1.freq, freq)]
                  ELSE c1)
    IN  IF ~MapHas(c.freq, freq)
        THEN [c |-> c, status |-> "panic"]
        ELSE \* line 58: c.freq[freq].RemoveNode(node)
             Drop([c EXCEPT !.freq[freq] = RemoveNode(c.freq[freq], n)])

\* update (lines 56-71).  c.freq[freq] of an absent bucket is a nil list, and
\* a method that reads its fields panics.
LFUupdate(c, n) ==
    LET freq == c.heap[n].Freq
        \* lines 68-70: c.freq[node.Freq].AddNode(node)
        Link(c4) ==
            [c |-> [c4 EXCEPT !.freq[freq + 1] = AddNode(c4.freq[freq + 1], n)],
             status |-> "ok"]
        \* lines 65-67: the bucket of the new frequency, made if absent
        Bucket(c3) ==
            Link(IF ~MapHas(c3.freq, freq + 1)
                 THEN [c3 EXCEPT !.freq = MapSet(c3.freq, freq + 1, NewLinkedList)]
                 ELSE c3)
        \* line 64: node.Freq++
        Count(c2) == Bucket([c2 EXCEPT !.heap[n].Freq = freq + 1])
        \* lines 59-63: the emptied minimum bucket goes
        Drop(c1) ==
            Count(IF c1.minFreq = freq /\ Size(c1.freq[freq]) = 0
                  THEN [c1 EXCEPT !.freq = MapDelete(c1.freq, freq),
                                  !.minFreq = c1.minFreq + 1]
                  ELSE c1)
    IN  IF ~MapHas(c.freq, freq)
        THEN [c |-> c, status |-> "panic"]
        ELSE \* line 58: c.freq[freq].RemoveNode(node)
             Drop([c EXCEPT !.freq[freq] = RemoveNode(c.freq[freq], n)])

LFUGet(c, key) ==
    IF ~MapHas(c.node, key)
    THEN [c |-> c, obs |-> Obs("Get", key)]
    ELSE LET Return(u) ==
                 [c   |-> Collect(u.c),
                  obs |-> [Obs("Get", key) EXCEPT
                             !.ok = (u.status = "ok"), !.status = u.status]]
         IN  Return(LFUupdate(c, c.node[key]))

\* No bucket at or above minFreq holds a node: every further iteration of the
\* eviction loop takes the branch of lines 120-122 and changes neither size
\* nor any bucket (minFreq would have to count through the whole int range
\* to come back to a bucket below it).
NoVictimAhead(c) ==
    \A f \in DOMAIN c.freq : f >= c.minFreq => Size(c.freq[f]) = 0

\* The eviction loop of Put (lines 117-133).
RECURSIVE LFUEvictLoop(_, _, _)
LFUEvictLoop(c, evicted, deletes) ==
    IF ~(c.size > c.capacity)
    THEN [c |-> c, evicted |-> evicted, deletes |-> deletes, status |-> "ok"]
    ELSE IF NoVictimAhead(c)
    THEN [c |-> c, evicted |-> evicted, deletes |-> deletes, status |-> "spinning"]
    ELSE IF ~MapHas(c.freq, c.minFreq) \/ Size(c.freq[c.minFreq]) = 0
    THEN LFUEvictLoop([c EXCEPT !.freq = MapDelete(c.freq, c.minFreq),
                                !.minFreq = c.minFreq + 1],
                      evicted, deletes + 1)
    ELSE LET \* lines 130-131: size and key map
             Account(c2, node) ==
                 [c2 EXCEPT !.size = SubU(c2.size, Len(node.Value)),
                            !.node = MapDelete(c2.node, node.Key)]
             \* lines 125-129: the emptied minimum bucket goes
             Drop(c1, node) ==
                 Account(IF c1.minFreq = node.Freq /\ Size(c1.freq[c1.minFreq]) = 0
                         THEN [c1 EXCEPT !.freq = MapDelete(c1.freq, node.Freq),
                                         !.minFreq = c1.minFreq + 1]
                         ELSE c1,
                         node)
             Evict(p, node) ==
                 LFUEvictLoop(
                     Drop([c EXCEPT !.freq[c.minFreq] = p.list], node),
                     Append(evicted,
                         [Key |-> node.Key, Freq |-> node.Freq,
                          live |-> MapHas(c.node, node.Key)
                                     /\ c.node[node.Key] = p.node,
                          wraps |-> Len(node.Value) > c.size]),
                     deletes + 1)
             Popped(p) == Evict(p, c.heap[p.node])
         IN  \* line 124: node := c.freq[c.minFreq].PopTail()
             Popped(PopTail(c.freq[c.minFreq]))

\* Faulty variant: a Put without the capacity == 0 return of lines 106-108.
LFUPutUnguarded(c, key, value) ==
    IF MapHas(c.node, key)
    THEN LET Store(n, u) ==
                 [c   |-> IF u.status = "ok"
                          THEN Collect([u.c EXCEPT !.heap[n].Value = value])
                          ELSE u.c,
                  obs |-> [Obs("Put", key) EXCEPT !.status = u.status]]
         IN  Store(c.node[key], LFUupdate(c, c.node[key]))
    ELSE LET Insert(c2, n) ==
                 [c   |-> Collect(
                            [c2 EXCEPT
                               !.heap = MapSet(c2.heap, n,
                                           [Key |-> key, Value |-> value, Freq |-> 1]),
                               !.node = MapSet(c2.node, key, n),
                               !.freq = MapSet(c2.freq, 1,
                                           AddNode(IF MapHas(c2.freq, 1)
                                                   THEN c2.freq[1]
                                                   ELSE NewLinkedList, n)),
                               !.minFreq = 1]),
                  obs |-> [Obs("Put", key) EXCEPT !.ok = TRUE]]
             Evicted(r) ==
                 IF r.status # "ok"
                 THEN [c   |-> r.c,
                       obs |-> [Obs("Put", key) EXCEPT
                                  !.evicted = r.evicted, !.deletes = r.deletes,
                                  !.status = r.status]]
                 ELSE Insert(Collect(r.c), NewNodeId(Collect(r.c)))
         IN  Evicted(LFUEvictLoop([c EXCEPT !.size = AddU(c.size, Len(value))],
                                  << >>, 0))

LFUPut(c, key, value) ==
    IF c.capacity = 0
    THEN [c |-> c, obs |-> Obs("Put", key)]
    ELSE IF MapHas(c.node, key)
    THEN LET Store(n, u) ==
                 [c   |-> IF u.status = "ok"
                          THEN Collect([u.c EXCEPT !.heap[n].Value = value])
                          ELSE u.c,
                  obs |-> [Obs("Put", key) EXCEPT !.status = u.status]]
         IN  Store(c.node[key], LFUupdate(c, c.node[key]))
    ELSE LET Return(r, c5) ==
                 [c   |-> Collect(c5),
                  obs |-> [Obs("Put", key) EXCEPT
                             !.ok = TRUE,
                             !.evicted = r.evicted, !.deletes = r.deletes]]
             \* lines 145-146
             Link(r, c4, n) ==
                 Return(r, [c4 EXCEPT !.freq[1] = AddNode(c4.freq[1], n),
                                      !.minFreq = 1])
             \* lines 141-144
             Bucket(r, c3, n) ==
                 Link(r,
                      IF ~MapHas(c3.freq, 1)
                      THEN [c3 EXCEPT !.freq = MapSet(c3.freq, 1, NewLinkedList)]
                      ELSE c3,
                      n)
             \* lines 135-140
             Create(r, c2, n) ==
                 Bucket(r,
                        [c2 EXCEPT
                           !.heap = MapSet(c2.heap, n,
                                       [Key |-> key, Value |-> value, Freq |-> 1]),
                           !.node = MapSet(c2.node, key, n)],
                        n)
             Alloc(r, c2) == Create(r, c2, NewNodeId(c2))
             Evicted(r) ==
                 IF r.status # "ok"
                 THEN [c   |-> r.c,
                       obs |-> [Obs("Put", key) EXCEPT
                                  !.evicted = r.evicted, !.deletes = r.deletes,
                                  !.status = r.status]]
                 ELSE Alloc(r, Collect(r.c))
         IN  \* lines 116-133
             Evicted(LFUEvictLoop([c EXCEPT !.size = AddU(c.size, Len(value))],
                                  << >>, 0))

\* Faulty variant: a Delete that unlinks the node from its bucket and leaves
\* the key in the key map.
LFUDeleteUnlinkOnly(c, key) ==
    IF ~MapHas(c.node, key)
    THEN [c |-> c, obs |-> Obs("Delete", key)]
    ELSE LET Unlink(n, freq) ==
                 [c   |-> [c EXCEPT !.freq[freq] = RemoveNode(c.freq[freq], n)],
                  obs |-> [Obs("Delete", key) EXCEPT !.ok = TRUE]]
         IN  Unlink(c.node[key], c.heap[c.node[key]].Freq)

\* Delete (lines 153-166): v.Size() of a nil list panics.
LFUDelete(c, key) ==
    IF ~MapHas(c.node, key)
    THEN [c |-> c, obs |-> Obs("Delete", key)]
    ELSE LET freq == c.heap[c.node[key]].Freq
         IN  IF c.minFreq = freq /\ ~MapHas(c.freq, c.minFreq)
             THEN [c |-> c, obs |-> [Obs("Delete", key) EXCEPT !.status = "panic"]]
             ELSE IF c.minFreq = freq /\ Size(c.freq[c.minFreq]) = 0
             THEN [c   |-> Collect([c EXCEPT !.freq = MapDelete(c.freq, freq),
                                             !.minFreq = c.minFreq + 1,
                                             !.node = MapDelete(c.node, key)]),
                   obs |-> [Obs("Delete", key) EXCEPT !.ok = TRUE, !.deletes = 1]]
             ELSE [c   |-> Collect([c EXCEPT !.node = MapDelete(c.node, key)]),
                   obs |-> [Obs("Delete", key) EXCEPT !.ok = TRUE]]

\* Snapshot (lines 168-180): the key -> value copy held by the fsmSnapshot.
LFUSnapshot(c) == [k \in DOMAIN c.node |-> c.heap[c.node[k]].Value]

\* ------------------------------------------------- snapshot transfer (raft)

\* encoding/json coerces a string to valid UTF-8: a byte that starts no valid
\* sequence becomes U+FFFD, whose encoding is the three bytes 239 191 189.
RECURSIVE ToValidUTF8(_)
ToValidUTF8(v) ==
    IF Len(v) = 0 THEN << >>
    ELSE IF v[1] < 128 THEN <<v[1]>> \o ToValidUTF8(Tail(v))
    ELSE IF Len(v) >= 3 /\ SubSeq(v, 1, 3) = <<239, 191, 189>>
    THEN <<239, 191, 189>> \o ToValidUTF8(SubSeq(v, 4, Len(v)))
    ELSE <<239, 191, 189>> \o ToValidUTF8(Tail(v))

\* json.Marshal(f.store) in Persist (line 204): the document, as the mapping
\* a decoder reads back from it.
JsonMarshal(store) == [k \in DOMAIN store |-> ToValidUTF8(store[k])]

\* json.NewDecoder(closer).Decode(&o) in Restore (line 184).
JsonDecode(doc) == [k \in DOMAIN doc |-> ToValidUTF8(doc[k])]

\* The loop of Restore (lines 190-192) over the decoded map, in the order
\* `order` the map iteration happens to take.
RECURSIVE RestorePuts(_, _, _, _)
RestorePuts(c, o, order, i) ==
    IF i > Len(order)
    THEN [c |-> c, status |-> "ok"]
    ELSE LET Continue(r) ==
                 IF r.obs.status # "ok"
                 THEN [c |-> r.c, status |-> r.obs.status]
                 ELSE RestorePuts(r.c, o, order, i + 1)
         IN  Continue(LFUPut(c, order[i], o[order[i]]))

LFURestore(c, doc, order) == RestorePuts(c, JsonDecode(doc), order, 1)

\* The orders a Go map iteration over the keys of m can take.
Orders(m) ==
    {o \in [1..Cardinality(DOMAIN m) -> DOMAIN m] :
        \A i, j \in DOMAIN o : i # j => o[i] # o[j]}

\* ---------------------------------------------------- Persist (raft sink)
\* A raft.SnapshotSink as Persist sees it: the documents written to it and
\* the number of Write, Close and Cancel calls it received.
NewSink == [data |-> << >>, writes |-> 0, closes |-> 0, cancels |-> 0]

\* The step of a Persist call that fails, if any.
Failures == {"none", "encode", "write", "close"}

\* sink.Write(b) (line 210).
SinkWrite(s, b, fails) ==
    [sink |-> [s EXCEPT !.writes = @ + 1,
                        !.data = IF fails THEN @ ELSE Append(@, b)],
     err  |-> IF fails THEN "write" ELSE "nil"]

\* sink.Close() (line 215).
SinkClose(s, fails) ==
    [sink |-> [s EXCEPT !.closes = @ + 1],
     err  |-> IF fails THEN "close" ELSE "nil"]

\* sink.Cancel() (line 219).
SinkCancel(s) == [s EXCEPT !.cancels = @ + 1]

\* The function literal of Persist (lines 202-216): encode, write, close; the
\* first error ends it.
PersistBody(store, s, fail) ==
    IF fail = "encode"
    THEN [sink |-> s, err |-> "encode"]
    ELSE LET Written(w) ==
                 IF w.err # "nil" THEN w
                 ELSE SinkClose(w.sink, fail = "close")
         IN  Written(SinkWrite(s, JsonMarshal(store), fail = "write"))

\* Faulty variant: a Persist that returns the error without cancelling the
\* sink.
PersistUncancelled(store, s, fail) == PersistBody(store, s, fail)

\* Persist (lines 201-223).
Persist(store, s, fail) ==
    LET Return(r) ==
            [sink |-> IF r.err # "nil" THEN SinkCancel(r.sink) ELSE r.sink,
             err  |-> r.err]
    IN  Return(PersistBody(store, s, fail))

\* ------------------------------------------------------------------ state

VARIABLES
    engine,   \* what this run drives: "lru", "lfu", "repl" (a cluster of
              \* LFUCaches) or "conc" (an LFUCache shared by goroutines)
    lru,      \* the LRUCache
    lfu,      \* the LFUCache
    restored, \* the last snapshot taken, and what the fresh LFUCache it was
              \* restored into returns to Get
    last,     \* the observation of the last call
    touch,    \* the keys callers touched (a Get that hit, a Put), latest
              \* first, kept for the keys still resident
    replicas, \* the LFUCaches of the nodes of a cluster
    lock,     \* the engine's sync.RWMutex: its writer (0: none) and readers
    threads,  \* per goroutine: the call it is in and the call's locals
    persist   \* the last Persist call: the sink it was given, as the call
              \* left it, the step that failed, and the error returned

vars == <<engine, lru, lfu, restored, last, touch, replicas, lock, threads,
          persist>>

\* Goroutines calling into one engine.
Procs == {1, 2}

Unlocked == [writer |-> 0, readers |-> {}]

\* A goroutine outside any call.  In a call: pc is the place reached, key the
\* call's key, value the value of a Put, freq the node.Freq Delete read, o the
\* map Snapshot is filling, visited the keys its iteration has produced, seen
\* every key -> value content the engine went through since Snapshot began.
Idle == [pc |-> "idle", key |-> "", value |-> << >>, freq |-> 0,
         o |-> EmptyMap, visited |-> {}, seen |-> {}]

\* Nodes of the cluster.
Nodes == {1, 2}

\* touch after a touch of k, kept for the keys of `resident`.
Touched(k, resident) ==
    SelectSeq(<<k>> \o SelectSeq(touch, LAMBDA x : x # k),
              LAMBDA x : x \in resident)

Untouched(resident) == SelectSeq(touch, LAMBDA x : x \in resident)

\* What a caller reads from engine c: Get's (value, found) for every key.
LFUReads(c) ==
    [k \in Keys |-> IF MapHas(c.node, k)
                    THEN [found |-> TRUE, value |-> c.heap[c.node[k]].Value]
                    ELSE [found |-> FALSE, value |-> << >>]]

NoRestore == [done |-> FALSE, snap |-> EmptyMap,
              reads |-> LFUReads(LFUNewCache(0)), status |-> "ok"]

Running == last.status = "ok"

NoPersist == [done |-> FALSE, store |-> EmptyMap, fail |-> "none",
              sink |-> NewSink, err |-> "nil"]

InitLRU ==
    /\ engine = "lru"
    /\ \E cap \in Capacities : lru = LRUNewCache(cap)
    /\ lfu = LFUNewCache(0)
    /\ restored = NoRestore
    /\ last = Obs("New", "")
    /\ touch = << >>
    /\ replicas = [i \in Nodes |-> LFUNewCache(0)]
    /\ lock = Unlocked
    /\ threads = [t \in Procs |-> Idle]
    /\ persist = NoPersist

InitLFU ==
    /\ engine = "lfu"
    /\ \E cap \in Capacities : lfu = LFUNewCache(cap)
    /\ lru = LRUNewCache(0)
    /\ restored = NoRestore
    /\ last = Obs("New", "")
    /\ touch = << >>
    /\ replicas = [i \in Nodes |-> LFUNewCache(0)]
    /\ lock = Unlocked
    /\ threads = [t \in Procs |-> Idle]
    /\ persist = NoPersist

LRUGetStep(key) ==
    /\ engine = "lru" /\ Running
    /\ LET r == LRUGet(lru, key)
       IN  /\ lru' = r.c
           /\ last' = r.obs
           /\ touch' = IF r.obs.ok THEN Touched(key, DOMAIN r.c.cache) ELSE touch
    /\ UNCHANGED <<engine, lfu, restored, replicas, lock, threads, persist>>

LRUPutStep(key, value) ==
    /\ engine = "lru" /\ Running
    /\ LET r == LRUPut(lru, key, value)
       IN  /\ lru' = r.c
           /\ last' = r.obs
           /\ touch' = Touched(key, DOMAIN r.c.cache)
    /\ UNCHANGED <<engine, lfu, restored, replicas, lock, threads, persist>>

\* Faulty variant: a HasKey answered through Get, which moves the node to the
\* head of the order.
LRUHasKeyStepByGet(key) ==
    /\ engine = "lru" /\ Running
    /\ lru' = LRUGet(lru, key).c
    /\ last' = [Obs("HasKey", key) EXCEPT !.ok = LRUHasKey(lru, key)]
    /\ UNCHANGED <<engine, lfu, restored, touch, replicas, lock, threads, persist>>

LRUHasKeyStep(key) ==
    /\ engine = "lru" /\ Running
    /\ last' = [Obs("HasKey", key) EXCEPT !.ok = LRUHasKey(lru, key)]
    /\ UNCHANGED <<engine, lru, lfu, restored, touch, replicas, lock, threads, persist>>

LFUGetStep(key) ==
    /\ engine = "lfu" /\ Running
    /\ MapHas(lfu.node, key) => lfu.heap[lfu.node[key]].Freq < MaxFreq
    /\ LET Return(r) ==
               /\ lfu' = r.c
               /\ last' = r.obs
               /\ touch' = IF r.obs.ok THEN Touched(key, DOMAIN r.c.node) ELSE touch
       IN  Return(LFUGet(lfu, key))
    /\ restored' = NoRestore
    /\ UNCHANGED <<engine, lru, replicas, lock, threads, persist>>

LFUPutStep(key, value) ==
    /\ engine = "lfu" /\ Running
    /\ MapHas(lfu.node, key) => lfu.heap[lfu.node[key]].Freq < MaxFreq
    /\ ~MapHas(lfu.node, key) => Cardinality(DOMAIN lfu.heap) < MaxNodes
    /\ LET Return(r) ==
               /\ lfu' = r.c
               /\ last' = r.obs
               /\ touch' = IF lfu.capacity = 0 THEN touch
                           ELSE Touched(key, DOMAIN r.c.node)
       IN  Return(LFUPut(lfu, key, value))
    /\ restored' = NoRestore
    /\ UNCHANGED <<engine, lru, replicas, lock, threads, persist>>

LFUDeleteStep(key) ==
    /\ engine = "lfu" /\ Running
    /\ LET Return(r) ==
               /\ lfu' = r.c
               /\ last' = r.obs
               /\ touch' = Untouched(DOMAIN r.c.node)
       IN  Return(LFUDelete(lfu, key))
    /\ restored' = NoRestore
    /\ UNCHANGED <<engine, lru, replicas, lock, threads, persist>>

\* Snapshot of the engine, Persist to a sink, Restore from it into a fresh
\* engine of the same capacity.
LFUSnapshotRestoreStep ==
    /\ engine = "lfu" /\ Running
    /\ LET Restored(snap, r) ==
               restored' = [done |-> TRUE, snap |-> snap,
                            reads |-> LFUReads(r.c), status |-> r.status]
           Persisted(snap, doc) ==
               \E order \in Orders(doc) :
                   Restored(snap,
                            LFURestore(LFUNewCache(lfu.capacity), doc, order))
           Taken(snap) == Persisted(snap, JsonMarshal(snap))
       IN  Taken(LFUSnapshot(lfu))
    /\ last' = Obs("Snapshot", "")
    /\ UNCHANGED <<engine, lru, lfu, touch, replicas, lock, threads, persist>>

\* Snapshot of the engine, then Persist of the snapshot to a new sink; `fail`
\* is the step of Persist that fails.
PersistStep(fail) ==
    /\ engine = "lfu" /\ Running
    /\ LET Return(store, r) ==
               persist' = [done |-> TRUE, store |-> store, fail |-> fail,
                           sink |-> r.sink, err |-> r.err]
           Taken(store) == Return(store, Persist(store, NewSink, fail))
       IN  Taken(LFUSnapshot(lfu))
    /\ last' = Obs("Persist", "")
    /\ UNCHANGED <<engine, lru, lfu, restored, touch, replicas, lock, threads>>

\* Release of the snapshot (line 225); the caller drops the sink with it.
ReleaseStep ==
    /\ engine = "lfu" /\ Running
    /\ persist.done
    /\ persist' = NoPersist
    /\ last' = Obs("Release", "")
    /\ UNCHANGED <<engine, lru, lfu, restored, touch, replicas, lock, threads>>

\* ---------------------------------------------------- replicated engines
\* Every node applies the committed Put and Delete commands in log order to
\* its own LFUCache; a Get is served by one node from its own engine.

InitRepl ==
    /\ engine = "repl"
    /\ \E cap \in Capacities : replicas = [i \in Nodes |-> LFUNewCache(cap)]
    /\ lru = LRUNewCache(0)
    /\ lfu = LFUNewCache(0)
    /\ restored = NoRestore
    /\ last = Obs("New", "")
    /\ touch = << >>
    /\ lock = Unlocked
    /\ threads = [t \in Procs |-> Idle]
    /\ persist = NoPersist

\* How a command applied on every node ended: "ok" unless some node's call
\* did not return.
ApplyStatus(rs) ==
    IF \A i \in Nodes : rs[i].obs.status = "ok" THEN "ok"
    ELSE LET i == CHOOSE j \in Nodes : rs[j].obs.status # "ok"
         IN  rs[i].obs.status

\* Largest frequency a replica's node is driven to.
MaxReplFreq == 2

WithinBounds(c, key) ==
    /\ MapHas(c.node, key) => c.heap[c.node[key]].Freq < MaxFreq
    /\ ~MapHas(c.node, key) => Cardinality(DOMAIN c.heap) < MaxNodes

\* The values the log carries: those a capacity can hold.
ReplValues == {v \in Values : Len(v) <= MaxCapacity}

ReplWithinBounds(c, key) ==
    /\ WithinBounds(c, key)
    /\ MapHas(c.node, key) => c.heap[c.node[key]].Freq < MaxReplFreq

ApplyPutStep(key, value) ==
    /\ engine = "repl" /\ Running
    /\ \A i \in Nodes : ReplWithinBounds(replicas[i], key)
    /\ LET Applied(rs) ==
               /\ replicas' = [i \in Nodes |-> rs[i].c]
               /\ last' = [Obs("Apply", "") EXCEPT !.status = ApplyStatus(rs)]
       IN  Applied([i \in Nodes |-> LFUPut(replicas[i], key, value)])
    /\ UNCHANGED <<engine, lru, lfu, restored, touch, lock, threads, persist>>

ApplyDeleteStep(key) ==
    /\ engine = "repl" /\ Running
    /\ LET Applied(rs) ==
               /\ replicas' = [i \in Nodes |-> rs[i].c]
               /\ last' = [Obs("Apply", "") EXCEPT !.status = ApplyStatus(rs)]
       IN  Applied([i \in Nodes |-> LFUDelete(replicas[i], key)])
    /\ UNCHANGED <<engine, lru, lfu, restored, touch, lock, threads, persist>>

LocalGetStep(i, key) ==
    /\ engine = "repl" /\ Running
    /\ MapHas(replicas[i].node, key) =>
          replicas[i].heap[replicas[i].node[key]].Freq < MaxReplFreq
    /\ LET Return(r) ==
               /\ replicas' = [replicas EXCEPT ![i] = r.c]
               /\ last' = [Obs("Get", "") EXCEPT !.status = r.obs.status]
       IN  Return(LFUGet(replicas[i], key))
    /\ UNCHANGED <<engine, lru, lfu, restored, touch, lock, threads, persist>>

NextRepl ==
    \/ \E k \in Keys, v \in ReplValues : ApplyPutStep(k, v)
    \/ \E k \in Keys : ApplyDeleteStep(k)
    \/ \E i \in Nodes, k \in Keys : LocalGetStep(i, k)

SpecRepl == InitRepl /\ [][NextRepl]_vars

\* ------------------------------------------------- concurrent callers
\* Goroutines call Get, Put, Delete and Snapshot on one LFUCache.  Get and Put
\* run their body between c.Lock() and the deferred c.Unlock(); Snapshot runs
\* its loop between c.RLock() and c.RUnlock(); Delete takes no lock, so each
\* of its accesses to the engine is a step of its own.

ConcKeys == {"a", "b"}

\* The goroutines store the empty value: no Put evicts, and the engine's
\* content is the keys put and not yet deleted.
ConcValues == {<< >>}

InitConc ==
    /\ engine = "conc"
    /\ \E cap \in Capacities \ {0} : lfu = LFUNewCache(cap)
    /\ lru = LRUNewCache(0)
    /\ restored = NoRestore
    /\ last = Obs("New", "")
    /\ touch = << >>
    /\ replicas = [i \in Nodes |-> LFUNewCache(0)]
    /\ lock = Unlocked
    /\ threads = [t \in Procs |-> Idle]
    /\ persist = NoPersist

\* The goroutine is between the first and the last access of its call to the
\* engine's state.
InSection(t) == threads[t].pc # "idle" /\ threads[t].pc # "SnapshotDone"

\* threads after the engine became c: every Snapshot in progress has one more
\* content to have seen.
Witnessing(ths, c) ==
    [t \in Procs |-> IF ths[t].pc = "Snapshot"
                     THEN [ths[t] EXCEPT !.seen = @ \cup {LFUSnapshot(c)}]
                     ELSE ths[t]]

\* c.Lock() of Get (line 77).
GetLock(t, key) ==
    /\ engine = "conc" /\ Running
    /\ threads[t].pc = "idle"
    /\ lock = Unlocked
    /\ lock' = [lock EXCEPT !.writer = t]
    /\ threads' = [threads EXCEPT ![t] = [Idle EXCEPT !.pc = "Get", !.key = key]]
    /\ UNCHANGED <<engine, lru, lfu, restored, last, touch, replicas, persist>>

\* The body of Get and its deferred c.Unlock() (lines 79-88).
GetBody(t) ==
    /\ engine = "conc" /\ Running
    /\ threads[t].pc = "Get"
    /\ MapHas(lfu.node, threads[t].key) =>
          lfu.heap[lfu.node[threads[t].key]].Freq < MaxFreq
    /\ LET Return(r) ==
               /\ lfu' = r.c
               /\ last' = [last EXCEPT !.status = r.obs.status]
               /\ threads' = Witnessing([threads EXCEPT ![t] = Idle], r.c)
       IN  Return(LFUGet(lfu, threads[t].key))
    /\ lock' = Unlocked
    /\ UNCHANGED <<engine, lru, restored, touch, replicas, persist>>

\* c.Lock() of Put (line 105).
PutLock(t, key, value) ==
    /\ engine = "conc" /\ Running
    /\ threads[t].pc = "idle"
    /\ lock = Unlocked
    /\ lock' = [lock EXCEPT !.writer = t]
    /\ threads' = [threads EXCEPT ![t] =
                      [Idle EXCEPT !.pc = "Put", !.key = key, !.value = value]]
    /\ UNCHANGED <<engine, lru, lfu, restored, last, touch, replicas, persist>>

\* The body of Put and its deferred c.Unlock() (lines 106-149); a Put whose
\* eviction loop never ends keeps the lock.
PutBody(t) ==
    /\ engine = "conc" /\ Running
    /\ threads[t].pc = "Put"
    /\ WithinBounds(lfu, threads[t].key)
    /\ LET Return(r) ==
               /\ lfu' = r.c
               /\ last' = [last EXCEPT !.status = r.obs.status]
               /\ threads' = Witnessing([threads EXCEPT ![t] = Idle], r.c)
               /\ lock' = IF r.obs.status = "ok" THEN Unlocked ELSE lock
       IN  Return(LFUPut(lfu, threads[t].key, threads[t].value))
    /\ UNCHANGED <<engine, lru, restored, touch, replicas, persist>>

\* Delete, lines 154-158: the key map lookup and the read of node.Freq.
DeleteRead(t, key) ==
    /\ engine = "conc" /\ Running
    /\ threads[t].pc = "idle"
    /\ MapHas(lfu.node, key)
    /\ threads' = [threads EXCEPT ![t] =
                      [Idle EXCEPT !.pc = "Delete159", !.key = key,
                                   !.freq = lfu.heap[lfu.node[key]].Freq]]
    /\ UNCHANGED <<engine, lru, lfu, restored, last, touch, replicas, lock, persist>>

\* Delete, lines 159-163.
DeleteCheck(t) ==
    /\ engine = "conc" /\ Running
    /\ threads[t].pc = "Delete159"
    /\ LET freq == threads[t].freq
       IN  IF lfu.minFreq = freq /\ ~MapHas(lfu.freq, lfu.minFreq)
           THEN /\ last' = [last EXCEPT !.status = "panic"]
                /\ UNCHANGED <<lfu, threads>>
           ELSE /\ lfu' = IF lfu.minFreq = freq /\ Size(lfu.freq[lfu.minFreq]) = 0
                          THEN [lfu EXCEPT !.freq = MapDelete(lfu.freq, freq),
                                           !.minFreq = lfu.minFreq + 1]
                          ELSE lfu
                /\ threads' = [threads EXCEPT ![t].pc = "Delete164"]
                /\ UNCHANGED last
    /\ UNCHANGED <<engine, lru, restored, touch, replicas, lock, persist>>

\* Delete, line 164: delete(c.node, key), and the return.
DeleteMap(t) ==
    /\ engine = "conc" /\ Running
    /\ threads[t].pc = "Delete164"
    /\ LET Return(c) ==
               /\ lfu' = c
               /\ threads' = Witnessing([threads EXCEPT ![t] = Idle], c)
       IN  Return(Collect([lfu EXCEPT !.node = MapDelete(lfu.node, threads[t].key)]))
    /\ UNCHANGED <<engine, lru, restored, last, touch, replicas, lock, persist>>

\* Delete's unlocked map accesses race with a call that holds the lock: the Go
\* runtime may detect the concurrent map access and end the process.
DeleteRace(t) ==
    /\ engine = "conc" /\ Running
    /\ threads[t].pc \in {"Delete159", "Delete164"}
    /\ \E u \in Procs \ {t} : InSection(u)
    /\ last' = [last EXCEPT !.status = "fatal"]
    /\ UNCHANGED <<engine, lru, lfu, restored, touch, replicas, lock, threads, persist>>

\* c.RLock() of Snapshot (line 169) and the make of o (line 172).
SnapshotLock(t) ==
    /\ engine = "conc" /\ Running
    /\ threads[t].pc = "idle"
    /\ lock.writer = 0
    /\ lock' = [lock EXCEPT !.readers = @ \cup {t}]
    /\ threads' = [threads EXCEPT ![t] =
                      [Idle EXCEPT !.pc = "Snapshot", !.seen = {LFUSnapshot(lfu)}]]
    /\ UNCHANGED <<engine, lru, lfu, restored, last, touch, replicas, persist>>

\* One iteration of the range over c.node (lines 174-176): the loop produces a
\* key that is in the map now and that it has not produced yet.
SnapshotCopy(t) ==
    /\ engine = "conc" /\ Running
    /\ threads[t].pc = "Snapshot"
    /\ \E k \in DOMAIN lfu.node \ threads[t].visited :
          threads' = [threads EXCEPT
                        ![t].o = MapSet(@, k, lfu.heap[lfu.node[k]].Value),
                        ![t].visited = @ \cup {k}]
    /\ UNCHANGED <<engine, lru, lfu, restored, last, touch, replicas, lock, persist>>

\* The end of the range, the return of o, and the deferred c.RUnlock().
SnapshotUnlock(t) ==
    /\ engine = "conc" /\ Running
    /\ threads[t].pc = "Snapshot"
    /\ DOMAIN lfu.node \ threads[t].visited = {}
    /\ lock' = [lock EXCEPT !.readers = @ \ {t}]
    /\ threads' = [threads EXCEPT ![t].pc = "SnapshotDone", ![t].visited = {}]
    /\ UNCHANGED <<engine, lru, lfu, restored, last, touch, replicas, persist>>

\* The caller drops the snapshot (fsmSnapshot.Release).
SnapshotRelease(t) ==
    /\ engine = "conc" /\ Running
    /\ threads[t].pc = "SnapshotDone"
    /\ threads' = [threads EXCEPT ![t] = Idle]
    /\ UNCHANGED <<engine, lru, lfu, restored, last, touch, replicas, lock, persist>>

NextConc ==
    \/ \E t \in Procs, k \in ConcKeys : GetLock(t, k)
    \/ \E t \in Procs : GetBody(t)
    \/ \E t \in Procs, k \in ConcKeys, v \in ConcValues : PutLock(t, k, v)
    \/ \E t \in Procs : PutBody(t)
    \/ \E t \in Procs, k \in ConcKeys : DeleteRead(t, k)
    \/ \E t \in Procs : DeleteCheck(t)
    \/ \E t \in Procs : DeleteMap(t)
    \/ \E t \in Procs : DeleteRace(t)
    \/ \E t \in Procs : SnapshotLock(t)
    \/ \E t \in Procs : SnapshotCopy(t)
    \/ \E t \in Procs : SnapshotUnlock(t)
    \/ \E t \in Procs : SnapshotRelease(t)

SpecConc == InitConc /\ [][NextConc]_vars

NextLRU ==
    \/ \E k \in Keys : LRUGetStep(k)
    \/ \E k \in Keys, v \in Values : LRUPutStep(k, v)
    \/ \E k \in Keys : LRUHasKeyStep(k)

NextLFU ==
    \/ \E k \in Keys : LFUGetStep(k)
    \/ \E k \in Keys, v \in Values : LFUPutStep(k, v)
    \/ \E k \in Keys : LFUDeleteStep(k)
    \/ LFUSnapshotRestoreStep

\* Puts on the LFU engine, and snapshots of it persisted to a sink; the
\* snapshot taken last is released before the engine is driven further.
NextPersist ==
    \/ \E k \in Keys, v \in Values : ~persist.done /\ LFUPutStep(k, v)
    \/ \E fail \in Failures : PersistStep(fail)
    \/ ReleaseStep

\* Sequences of Put alone, on either engine.
NextPut ==
    \/ \E k \in Keys, v \in Values : LRUPutStep(k, v)
    \/ \E k \in Keys, v \in Values : LFUPutStep(k, v)

Init == InitLRU \/ InitLFU

Next == NextLRU \/ NextLFU

\* One engine of either kind, driven by one caller at a time.
Spec == Init /\ [][Next]_vars

SpecLRU == InitLRU /\ [][NextLRU]_vars

SpecLFU == InitLFU /\ [][NextLFU]_vars

SpecPut == Init /\ [][NextPut]_vars

\* -------------------------------------------------------------- properties

\* Sum of the value lengths of the resident entries.
RECURSIVE SumLen(_, _)
SumLen(m, ks) ==
    IF ks = {} THEN 0
    ELSE LET k == CHOOSE x \in ks : TRUE
         IN  Len(m[k]) + SumLen(m, ks \ {k})

LRUContent == [k \in DOMAIN lru.cache |-> lru.cache[k].Value]

LFUContent == LFUSnapshot(lfu)

ResidentBytes ==
    IF engine = "lru" THEN SumLen(LRUContent, DOMAIN LRUContent)
    ELSE SumLen(LFUContent, DOMAIN LFUContent)

EngineCapacity == IF engine = "lru" THEN lru.capacity ELSE lfu.capacity

\* C1: on both engines, after each completed Put the sum of the value
\* lengths of all resident entries is <= the capacity.
C1_CapacityInvariant ==
    (last.op = "Put" /\ last.status = "ok") => ResidentBytes <= EngineCapacity


\* C1 witness: a completed Put on an engine that holds an entry.
C1_Witness ==
    /\ last.op = "Put" /\ last.status = "ok"
    /\ ResidentBytes > 0

\* C5: on the LRU engine, the entries a Put evicts are, in order, the resident
\* keys whose latest touch (Get hit, insert or update) is the oldest at that
\* moment: the i-th evicted key is the i-th least recently touched key among
\* the keys resident when the eviction loop starts (the new key included).
C5_LRUEvictsLeastRecentlyTouched ==
    [][(engine = "lru" /\ last'.op = "Put") =>
         LET T == <<last'.key>> \o SelectSeq(touch, LAMBDA x : x # last'.key)
         IN  /\ Len(last'.evicted) <= Len(T)
             /\ \A i \in 1..Len(last'.evicted) :
                    last'.evicted[i].Key = T[Len(T) - i + 1]]_vars

\* C5 witness: a Put evicted an entry other than the one it inserted while
\* an older-inserted entry, touched since, stayed resident.
C5_Witness ==
    /\ engine = "lru" /\ last.op = "Put" /\ last.status = "ok"
    /\ Len(last.evicted) = 1
    /\ last.evicted[1].Key # last.key
    /\ Cardinality(DOMAIN lru.cache) >= 2

\* C6: every invocation of Get, Put, Delete and HasKey terminates: no call is
\* left in a loop that never ends.
C6_OperationsComplete == last.status # "spinning"

\* C7: on the LRU engine, a Put of a new key whose value length alone exceeds
\* the capacity returns with that key absent and with size equal to its value
\* before the call.
C7_SelfEviction ==
    [][\A k \in Keys, v \in Values :
         (LRUPutStep(k, v) /\ ~MapHas(lru.cache, k) /\ Len(v) > lru.capacity) =>
            /\ last'.status = "ok"
            /\ ~MapHas(lru'.cache, k)
            /\ lru'.size = lru.size]_vars

\* C10: on the LRU engine, a Put on a key that is already present replaces the
\* value, moves the entry to the head, returns created = false, evicts
\* nothing and leaves size (and every other entry) as it was.
C10_UpdateKeepsSize ==
    [][\A k \in Keys, v \in Values :
         (LRUPutStep(k, v) /\ MapHas(lru.cache, k)) =>
            /\ lru'.cache[k].Value = v
            /\ lru'.linklist[1] = k
            /\ last'.ok = FALSE /\ last'.status = "ok"
            /\ last'.evicted = << >> /\ last'.deletes = 0
            /\ DOMAIN lru'.cache = DOMAIN lru.cache
            /\ \A j \in DOMAIN lru.cache \ {k} : lru'.cache[j] = lru.cache[j]
            /\ lru'.size = lru.size]_vars

\* C10 witness: an update has left size different from the bytes resident.
C10_Witness ==
    /\ engine = "lru" /\ last.op = "Put" /\ last.status = "ok" /\ ~last.ok
    /\ MapHas(lru.cache, last.key)
    /\ lru.linklist[1] = last.key
    /\ lru.size # ResidentBytes

\* C3: after Snapshot of an LFU engine and Restore of it into a fresh engine
\* of equal capacity, Get on that engine returns exactly the snapshot's value
\* for every key of the snapshot and not-found for every other key, whatever
\* order Restore iterates in.
C3_SnapshotRestoreRoundTrip ==
    restored.done =>
        /\ restored.status = "ok"
        /\ \A k \in Keys :
              IF MapHas(restored.snap, k)
              THEN restored.reads[k] = [found |-> TRUE, value |-> restored.snap[k]]
              ELSE ~restored.reads[k].found

\* C3 witness: a non-empty snapshot was restored.
C3_Witness == restored.done /\ DOMAIN restored.snap # {}

\* Position of key k in touch (1 is the latest touched).
TouchIndex(k) == CHOOSE i \in 1..Len(touch) : touch[i] = k

\* The place of resident key k in the LFU eviction order of the engine: the
\* number of resident keys with a smaller access count, or with the same
\* count and an older latest touch, plus one.
LFURank(k) ==
    LET cnt(j) == lfu.heap[lfu.node[j]].Freq
    IN  1 + Cardinality({j \in DOMAIN lfu.node :
                            \/ cnt(j) < cnt(k)
                            \/ cnt(j) = cnt(k) /\ TouchIndex(j) > TouchIndex(k)})

\* C4: on the LFU engine, every entry a Put evicts is a resident key (the
\* entry the key map holds for it), with the smallest access count among the
\* resident keys and, among those, the least recently touched: the i-th
\* evicted entry is the i-th key of the eviction order.
C4_LFUEvictsLeastFrequent ==
    [][(engine = "lfu" /\ last'.op = "Put") =>
         \A i \in 1..Len(last'.evicted) :
            LET e == last'.evicted[i]
            IN  /\ e.live
                /\ MapHas(lfu.node, e.Key)
                /\ LFURank(e.Key) = i]_vars

\* C4 witness: a Put on the LFU engine evicted an entry.
C4_Witness ==
    /\ engine = "lfu" /\ last.op = "Put" /\ last.status = "ok"
    /\ Len(last.evicted) >= 1

\* C2: replicas of equal capacity that applied the same committed Put and
\* Delete commands in the same order hold identical key -> value content,
\* whatever Gets each one served locally.
C2_ReplicaConvergence ==
    (engine = "repl" /\ Running) =>
        \A i, j \in Nodes : LFUSnapshot(replicas[i]) = LFUSnapshot(replicas[j])

\* C2 witness: a command was applied to replicas that have served different
\* local Gets (their bucket maps differ).
C2_Witness ==
    /\ engine = "repl" /\ Running
    /\ last.op = "Apply"
    /\ replicas[1].freq # replicas[2].freq
    /\ DOMAIN replicas[1].node # {}

\* C8: every Get, Put and Delete is inside its state-accessing section only
\* while it holds the exclusive lock, so none of them is inside it together
\* with another Get, Put, Delete or Snapshot.
C8_ExclusiveLocking ==
    engine = "conc" =>
        \A t \in Procs :
            (InSection(t) /\ threads[t].pc # "Snapshot") =>
                /\ lock.writer = t
                /\ \A u \in Procs \ {t} : ~InSection(u)

\* C8 witness: a Put is inside its section, holding the exclusive lock.
C8_Witness ==
    /\ engine = "conc"
    /\ \E t \in Procs : threads[t].pc = "Put" /\ lock.writer = t

\* C9: the mapping a Snapshot returns equals the engine's complete key ->
\* value content at one instant between the start and the end of the call.
C9_PointInTimeSnapshot ==
    engine = "conc" =>
        \A t \in Procs :
            threads[t].pc = "SnapshotDone" => threads[t].o \in threads[t].seen

\* C9 witness: a Snapshot of a non-empty engine has returned.
C9_Witness ==
    /\ engine = "conc"
    /\ \E t \in Procs : threads[t].pc = "SnapshotDone" /\ DOMAIN threads[t].o # {}

\* C11: on the LRU engine, HasKey(k) returns true exactly when k is resident
\* and leaves the key map, the recency order and size as they were, so the
\* Puts that follow evict as if the call had not been made.
C11_HasKeyReadOnly ==
    [][(engine = "lru" /\ last'.op = "HasKey") =>
          /\ last'.ok = MapHas(lru.cache, last'.key)
          /\ lru' = lru]_vars

\* C11 witness: HasKey returned true for a resident key that is not at the
\* head of the order (a touch would have moved it).
C11_Witness ==
    /\ engine = "lru" /\ last.op = "HasKey" /\ last.ok
    /\ MapHas(lru.cache, last.key)
    /\ Size(lru.linklist) >= 2
    /\ lru.linklist[1] # last.key

\* C12: an LFU engine constructed with capacity 0 stays in its constructed
\* state (key map, buckets, size, minFreq), every Put on it returns created =
\* false and every Get on it reports not-found.
C12_DegenerateCapacity ==
    (engine = "lfu" /\ lfu.capacity = 0) =>
        /\ lfu = LFUNewCache(0)
        /\ last.op \in {"Put", "Get"} => ~last.ok
        /\ last.status = "ok"

\* C12 witness: a Put on an engine of capacity 0 has returned.
C12_Witness ==
    /\ engine = "lfu" /\ lfu.capacity = 0
    /\ last.op = "Put" /\ last.key \in Keys

\* C13: on the LFU engine, Delete(k) returns true exactly when k was
\* resident; after a true Delete k is absent from the key map (Get misses it,
\* Snapshot omits it) and stays absent until a Put(k); a false Delete changes
\* no state; Delete changes no other key's presence or value.
C13_DeleteContract ==
    [][engine = "lfu" =>
          /\ last'.op = "Delete" =>
                /\ last'.status = "ok"
                /\ last'.ok = MapHas(lfu.node, last'.key)
                /\ ~MapHas(lfu'.node, last'.key)
                /\ ~last'.ok => lfu' = lfu
                /\ \A k \in Keys \ {last'.key} :
                      LFUReads(lfu')[k] = LFUReads(lfu)[k]
          /\ last'.op = "Get" => last'.ok = MapHas(lfu.node, last'.key)
          /\ \A k \in Keys :
                (~MapHas(lfu.node, k) /\ MapHas(lfu'.node, k)) =>
                    (last'.op = "Put" /\ last'.key = k)]_vars

\* C13 witness: a Delete returned true while another key was resident.
C13_Witness ==
    /\ engine = "lfu" /\ last.op = "Delete" /\ last.ok
    /\ DOMAIN lfu.node # {}

\* C14: on both engines, during every Put the "delete" counter increases by
\* exactly the number of entries that Put evicts.
C14_DeleteMetricCountsEvictions ==
    (last.op = "Put" /\ last.status = "ok") =>
        last.deletes = Len(last.evicted)

\* C14 witness: a Put that evicted an entry has returned.
C14_Witness ==
    /\ last.op = "Put" /\ last.status = "ok"
    /\ Len(last.evicted) >= 1

SpecPersist == InitLFU /\ [][NextPersist]_vars

\* C15: Persist cancels the sink if and only if encoding, writing or closing
\* fails, and then returns that error; when all three succeed the sink is
\* written once (with the encoded snapshot), closed once, never cancelled,
\* and Persist returns no error.
C15_PersistErrorHandling ==
    persist.done =>
        /\ persist.sink.cancels = (IF persist.fail = "none" THEN 0 ELSE 1)
        /\ persist.fail # "none" => persist.err = persist.fail
        /\ persist.fail = "none" =>
              /\ persist.err = "nil"
              /\ persist.sink.writes = 1
              /\ persist.sink.closes = 1
              /\ persist.sink.data = <<JsonMarshal(persist.store)>>

\* C15 witness: a Persist of a non-empty snapshot failed at Close.
C15_Witness ==
    /\ persist.done /\ persist.fail = "close"
    /\ DOMAIN persist.store # {}

EngineSize == IF engine = "lru" THEN lru.size ELSE lfu.size

\* C16: on both engines, after every completed Put (insert or update) the
\* engine's size counter is <= capacity.
C16_TrackedSizeBound ==
    (last.op = "Put" /\ last.status = "ok") => EngineSize <= EngineCapacity

\* C16 witness: a completed Put evicted entries and left the size counter at
\* the capacity.
C16_Witness ==
    /\ last.op = "Put" /\ last.status = "ok"
    /\ Len(last.evicted) >= 1
    /\ EngineCapacity > 0 /\ EngineSize = EngineCapacity

\* C17: on the LFU engine, after every completed Get, Put or Delete the
\* frequency-bucket map holds no bucket whose ordered index has zero entries.
C17_NoEmptyBuckets ==
    (engine = "lfu" /\ last.op \in {"Get", "Put", "Delete"} /\ last.status = "ok") =>
        \A f \in DOMAIN lfu.freq : Size(lfu.freq[f]) > 0

\* C17 witness: a completed Get moved the last node out of its bucket.
C17_Witness ==
    /\ engine = "lfu" /\ last.op = "Get" /\ last.ok
    /\ DOMAIN lfu.freq # {}
    /\ ~MapHas(lfu.freq, lfu.heap[lfu.node[last.key]].Freq - 1)

\* C18: on the LFU engine, after every completed Get, Put or Delete, whenever
\* the frequency-bucket map is non-empty, minFreq equals the smallest
\* frequency present in it.
C18_MinFrequencyTracking ==
    (engine = "lfu" /\ last.op \in {"Get", "Put", "Delete"} /\ last.status = "ok"
        /\ DOMAIN lfu.freq # {}) =>
        /\ MapHas(lfu.freq, lfu.minFreq)
        /\ \A f \in DOMAIN lfu.freq : lfu.minFreq <= f

\* C18 witness: a completed Put evicted the last node of the minimum bucket
\* while a bucket of a higher frequency stayed.
C18_Witness ==
    /\ engine = "lfu" /\ last.op = "Put" /\ last.status = "ok"
    /\ Len(last.evicted) >= 1
    /\ \E f \in DOMAIN lfu.freq : f >= 2

\* C19: on the LFU engine every entry held in a frequency bucket is the
\* entry the key map holds for that entry's key, and every entry a Put
\* evicts is the one the key map held for its key.
C19_BucketKeyIndexAgreement ==
    engine = "lfu" =>
        /\ \A f \in DOMAIN lfu.freq : \A i \in 1..Len(lfu.freq[f]) :
              LET n == lfu.freq[f][i]
              IN  /\ MapHas(lfu.node, lfu.heap[n].Key)
                  /\ lfu.node[lfu.heap[n].Key] = n
        /\ \A i \in 1..Len(last.evicted) : last.evicted[i].live

\* C19 witness: a Delete returned true on an engine that holds other entries.
C19_Witness ==
    /\ engine = "lfu" /\ last.op = "Delete" /\ last.ok
    /\ Cardinality(DOMAIN lfu.node) >= 1
    /\ \E f \in DOMAIN lfu.freq : Len(lfu.freq[f]) >= 2

\* C20: on both engines no eviction subtracts a value length larger than the
\* current size (size never wraps below zero), and the LRU eviction loop
\* never pops the tail of an empty order list.
C20_NoSizeWraparound ==
    /\ \A i \in 1..Len(last.evicted) : ~last.evicted[i].wraps
    /\ engine = "lru" => last.status # "panic"

\* C20 witness: a Put on the LRU engine has evicted two entries and returned.
C20_Witness ==
    /\ engine = "lru" /\ last.op = "Put" /\ last.status = "ok"
    /\ Len(last.evicted) >= 2

====
